---- MODULE Spec2Model ----
(***************************************************************************)
(* Model of load_testing.StartTest (src/load_testing/load_testing.go):     *)
(* the fan-out of one goroutine per request, the per-unit benchmark loop,  *)
(* the unbuffered result channel, the closer goroutine and the aggregation *)
(* and finalization loops of the main goroutine.                           *)
(*                                                                         *)
(* Durations are time.Duration values (int64 nanoseconds in the program);  *)
(* the model uses small integers, far from any overflow of int64 or int.   *)
(***************************************************************************)
EXTENDS Integers, Sequences, FiniteSets, TLC

\* ------------------------------------------------------------------ bounds
MaxT == 3
MaxTime == 1
MaxRepeat == 3

\* --------------------------------------------------------------- constants
reqPerMethod == 1
LimiterBurst == 1
GetAccountInfo == "getAccountInfo"
AccountKeys == <<"key0", "key1">>
URLs == {"u1"}
FlagValues == {1, 5}
NoErr == "nil"

Units == 0 .. (MaxT - 1)
Phases == {"DNSLookup", "TCPConnection", "TLSHandshake", "ServerProcessing"}

\* RequestTimings{} : the zero value of the struct
ZeroTimings ==
  [DNSLookup |-> 0, TCPConnection |-> 0, TLSHandshake |-> 0, ServerProcessing |-> 0]

RequestTimings(dns, tcp, tls, sp) ==
  [DNSLookup |-> dns, TCPConnection |-> tcp, TLSHandshake |-> tls, ServerProcessing |-> sp]

\* Go's integer division truncates toward zero (TLA+'s \div floors).
GoDiv(a, b) ==
  IF a >= 0 THEN a \div b ELSE -((-a) \div b)

\* int(d) of a time.Duration: the identity on every value that fits the
\* narrowest Go int (32 bit); every duration of the model does.
ToInt(d) ==
  IF d > 2147483647 THEN d - 2147483647 - 2147483647 - 2 ELSE d

\* Mutant: the comparison is inverted.
minDurationInverted(a, b) ==
  IF a > b THEN a ELSE b

minDuration(a, b) ==
  IF a < b THEN a ELSE b

maxDuration(a, b) ==
  IF a > b THEN a ELSE b

\* ------------------------------------------------- the transport's answers
\* What the network does to one call: whether client.Do fails, whether the
\* first response byte arrived (before a failure of client.Do or not at
\* all), the trace durations, the time to the first response byte, the total
\* elapsed time and the failures that follow.
Response(doErr, firstByte, dns, tcp, tls, ttfb, readErr, statusOK, decodeOK, rpcErr, elapsed) ==
  [doErr |-> doErr, firstByte |-> firstByte,
   dns |-> dns, tcp |-> tcp, tls |-> tls, ttfb |-> ttfb,
   readErr |-> readErr, statusOK |-> statusOK, decodeOK |-> decodeOK,
   rpcErr |-> rpcErr, elapsed |-> elapsed]

Responses ==
  { Response(FALSE, TRUE, 1, 2, 3, 10, FALSE, TRUE, TRUE, FALSE, 11),  \* (1,2,3,4)
    Response(FALSE, TRUE, 3, 1, 5, 11, FALSE, TRUE, TRUE, FALSE, 12),  \* (3,1,5,2)
    Response(TRUE, FALSE, 1, 2, 0, 0, FALSE, TRUE, TRUE, FALSE, 4),    \* client.Do fails
    Response(TRUE, TRUE, 2, 2, 2, 5, FALSE, TRUE, TRUE, FALSE, 6),     \* ... after a skewed first byte
    Response(FALSE, TRUE, 2, 2, 2, 5, FALSE, TRUE, TRUE, FALSE, 6),    \* trace skew
    Response(FALSE, TRUE, 2, 2, 2, 5, TRUE, FALSE, FALSE, TRUE, 6),    \* trace skew and all the rest
    Response(FALSE, TRUE, 1, 1, 1, 5, TRUE, TRUE, TRUE, FALSE, 6),     \* body read fails
    Response(FALSE, TRUE, 1, 1, 1, 5, FALSE, FALSE, TRUE, FALSE, 6),   \* status != 200
    Response(FALSE, TRUE, 1, 1, 1, 5, FALSE, TRUE, FALSE, FALSE, 6),   \* malformed body
    Response(FALSE, TRUE, 1, 1, 1, 5, FALSE, TRUE, TRUE, TRUE, 6) }    \* RPC error object

\* serverProcessing as the GotFirstResponseByte callback computes it; it
\* keeps its zero value when the callback never runs.
ServerProcessingOf(resp) ==
  IF resp.firstByte THEN resp.ttfb - resp.tcp - resp.dns - resp.tls ELSE 0

\* Mutant: the test of serverProcessing < 0 is missing.
performRequestNoSkewTest(resp) ==
  LET fail(kind) == [requestTime |-> 0, timings |-> ZeroTimings, err |-> kind]
      sp == ServerProcessingOf(resp)
  IN  IF resp.doErr THEN fail("transport")
      ELSE IF resp.readErr THEN fail("read")
      ELSE IF ~resp.statusOK THEN fail("status")
      ELSE IF ~resp.decodeOK THEN fail("decode")
      ELSE IF resp.rpcErr THEN fail("rpc")
      ELSE [requestTime |-> resp.elapsed,
            timings |-> RequestTimings(resp.dns, resp.tcp, resp.tls, sp),
            err |-> NoErr]

\* performRequest after the limiter has granted the token: the result triple
\* (requestTime, timings, err).
performRequest(resp) ==
  LET fail(kind) == [requestTime |-> 0, timings |-> ZeroTimings, err |-> kind]
      sp == ServerProcessingOf(resp)
  IN  IF resp.doErr THEN fail("transport")
      ELSE IF sp < 0 THEN fail("measurement")
      ELSE IF resp.readErr THEN fail("read")
      ELSE IF ~resp.statusOK THEN fail("status")
      ELSE IF ~resp.decodeOK THEN fail("decode")
      ELSE IF resp.rpcErr THEN fail("rpc")
      ELSE [requestTime |-> resp.elapsed,
            timings |-> RequestTimings(resp.dns, resp.tcp, resp.tls, sp),
            err |-> NoErr]

\* ------------------------------------------------------- benchmarkMethod
\* The locals of benchmarkMethod before the first iteration.
NewBench ==
  [minTimings |-> ZeroTimings, maxTimings |-> ZeroTimings,
   totalTimings |-> ZeroTimings, totalTime |-> 0, performedRequests |-> 0]

\* Mutant: the error of performRequest is not tested, a failed attempt is
\* accumulated like a success.
AccumulateUnchecked(b, res) ==
       [minTimings |->
          IF b.performedRequests = 0 THEN res.timings
          ELSE [p \in Phases |-> minDuration(b.minTimings[p], res.timings[p])],
        maxTimings |->
          IF b.performedRequests = 0 THEN res.timings
          ELSE [p \in Phases |-> maxDuration(b.maxTimings[p], res.timings[p])],
        totalTimings |-> [p \in Phases |-> b.totalTimings[p] + res.timings[p]],
        totalTime |-> b.totalTime + res.requestTime,
        performedRequests |-> b.performedRequests + 1]

\* Mutant: min and max are never seeded with the first success.
AccumulateNoSeed(b, res) ==
  IF res.err # NoErr THEN b
  ELSE [minTimings |->
          [p \in Phases |-> minDuration(b.minTimings[p], res.timings[p])],
        maxTimings |->
          [p \in Phases |-> maxDuration(b.maxTimings[p], res.timings[p])],
        totalTimings |-> [p \in Phases |-> b.totalTimings[p] + res.timings[p]],
        totalTime |-> b.totalTime + res.requestTime,
        performedRequests |-> b.performedRequests + 1]

\* One iteration of the loop body on the result of performRequest.
Accumulate(b, res) ==
  IF res.err # NoErr THEN b
  ELSE [minTimings |->
          IF b.performedRequests = 0 THEN res.timings
          ELSE [p \in Phases |-> minDuration(b.minTimings[p], res.timings[p])],
        maxTimings |->
          IF b.performedRequests = 0 THEN res.timings
          ELSE [p \in Phases |-> maxDuration(b.maxTimings[p], res.timings[p])],
        totalTimings |-> [p \in Phases |-> b.totalTimings[p] + res.timings[p]],
        totalTime |-> b.totalTime + res.requestTime,
        performedRequests |-> b.performedRequests + 1]

\* Mutant: the averages are rounded to the nearest value.
AverageOfRounded(b) ==
  IF b.performedRequests > 0
  THEN [p \in Phases |->
          GoDiv(2 * ToInt(b.totalTimings[p]) + b.performedRequests,
                2 * b.performedRequests)]
  ELSE ZeroTimings

\* The averages computed after the loop.
AverageOf(b) ==
  IF b.performedRequests > 0
  THEN [p \in Phases |-> GoDiv(ToInt(b.totalTimings[p]), b.performedRequests)]
  ELSE ZeroTimings

\* The BenchmarkResult benchmarkMethod returns.
BenchmarkResult(url, method, params, b) ==
  [URL |-> url, Method |-> method,
   MinTimings |-> b.minTimings, MaxTimings |-> b.maxTimings,
   AverageTimings |-> AverageOf(b), TotalTimings |-> b.totalTimings,
   TotalTime |-> b.totalTime, RequestsCount |-> b.performedRequests,
   Params |-> params]

\* ------------------------------------------------------------ aggregation
\* key := fmt.Sprintf("%s_%s", result.URL, result.Method)
KeyOf(result) ==
  result.URL \o "_" \o result.Method

Keys == { u \o "_" \o GetAccountInfo : u \in URLs }

\* Mutant: the entry is created without the count of its first result.
SeedEntryNoCount(result) ==
  [URL |-> result.URL, Method |-> result.Method,
   MinTimings |-> result.MinTimings, MaxTimings |-> result.MaxTimings,
   AggregateTimings |-> result.TotalTimings,
   TotalTime |-> result.TotalTime, RequestsCount |-> 0]

\* The entry created for a key seen for the first time.
SeedEntry(result) ==
  [URL |-> result.URL, Method |-> result.Method,
   MinTimings |-> result.MinTimings, MaxTimings |-> result.MaxTimings,
   AggregateTimings |-> result.TotalTimings,
   TotalTime |-> result.TotalTime, RequestsCount |-> result.RequestsCount]

\* Mutant: the incoming maximum replaces the entry's maximum.
UpdateEntryLastMax(agg, result) ==
       [URL |-> agg.URL, Method |-> agg.Method,
        MinTimings |->
          [p \in Phases |-> minDuration(agg.MinTimings[p], result.MinTimings[p])],
        MaxTimings |-> result.MaxTimings,
        AggregateTimings |->
          [p \in Phases |-> agg.AggregateTimings[p] + result.TotalTimings[p]],
        TotalTime |-> agg.TotalTime + result.TotalTime,
        RequestsCount |-> agg.RequestsCount + result.RequestsCount]

\* Mutant: the count of the incoming result replaces the entry's count.
UpdateEntryCountAssigned(agg, result) ==
       [URL |-> agg.URL, Method |-> agg.Method,
        MinTimings |->
          [p \in Phases |-> minDuration(agg.MinTimings[p], result.MinTimings[p])],
        MaxTimings |->
          [p \in Phases |-> maxDuration(agg.MaxTimings[p], result.MaxTimings[p])],
        AggregateTimings |->
          [p \in Phases |-> agg.AggregateTimings[p] + result.TotalTimings[p]],
        TotalTime |-> agg.TotalTime + result.TotalTime,
        RequestsCount |-> result.RequestsCount]

\* The update in place of the entry of a key seen before.
UpdateEntry(agg, result) ==
       [URL |-> agg.URL, Method |-> agg.Method,
        MinTimings |->
          [p \in Phases |-> minDuration(agg.MinTimings[p], result.MinTimings[p])],
        MaxTimings |->
          [p \in Phases |-> maxDuration(agg.MaxTimings[p], result.MaxTimings[p])],
        AggregateTimings |->
          [p \in Phases |-> agg.AggregateTimings[p] + result.TotalTimings[p]],
        TotalTime |-> agg.TotalTime + result.TotalTime,
        RequestsCount |-> agg.RequestsCount + result.RequestsCount]

\* Mutant: a result whose key has no entry yet is dropped.
MergeResultNoSeed(aggs, result) ==
  LET key == KeyOf(result)
  IN  IF key \notin DOMAIN aggs
      THEN aggs
      ELSE [aggs EXCEPT ![key] = UpdateEntry(@, result)]

\* The body of the drain loop between Lock and Unlock: the map after the
\* result has been merged into it.
MergeResult(aggs, result) ==
  LET key == KeyOf(result)
  IN  IF key \notin DOMAIN aggs
      THEN [k \in DOMAIN aggs \cup {key} |->
              IF k = key THEN SeedEntry(result) ELSE aggs[k]]
      ELSE [aggs EXCEPT ![key] = UpdateEntry(@, result)]

\* Mutant: only the first phase is divided.
FinalizeEntryFirstPhaseOnly(agg) ==
  [agg EXCEPT !.AggregateTimings =
     [p \in Phases |->
        IF p = "DNSLookup"
        THEN GoDiv(ToInt(agg.AggregateTimings[p]), agg.RequestsCount)
        ELSE agg.AggregateTimings[p]]]

\* The body of the finalization loop for one map entry.
FinalizeEntry(agg) ==
  [agg EXCEPT !.AggregateTimings =
     [p \in Phases |->
        IF p = "DNSLookup"
        THEN GoDiv(ToInt(agg.AggregateTimings[p]), agg.RequestsCount)
        ELSE GoDiv(agg.AggregateTimings[p], agg.RequestsCount)]]

\* ------------------------------------------------------------------ state
VARIABLES
  providerURL,       \* StartTest's providerURL argument
  totalRequests,     \* StartTest's totalRequests argument
  flagReqPerMethod,  \* the --reqPerMethod value of the command line
  mainPc,            \* position of the goroutine running StartTest
  spawnI,            \* the loop variable i of the spawn loop
  wg,                \* the WaitGroup counter
  closerPc,          \* position of the goroutine that waits and closes
  closed,            \* whether the results channel is closed
  units,             \* per spawned goroutine: position, locals, its limiter
  now,               \* the clock, in units of 1/rateLimit seconds
  passedNow,         \* calls that left limiter.Wait at the current instant
  cur,               \* the loop variable result of the drain loop
  mutex,             \* holder of resultsMutex
  aggregateResults,  \* the map key -> *AggregateBenchmarkResult
  logged,            \* the per-result log lines written so far
  finalizeCount,     \* per key, the finalization loop bodies executed
  bm                 \* one call of benchmarkMethod taken alone: its loop
                     \* counter, its locals and what performRequest returned

vars ==
  <<providerURL, totalRequests, flagReqPerMethod, mainPc, spawnI, wg, closerPc,
    closed, units, now, passedNow, cur, mutex, aggregateResults, logged,
    finalizeCount, bm>>

inputs == <<providerURL, totalRequests, flagReqPerMethod>>
clock == <<now, passedNow>>
aggregator == <<cur, mutex, aggregateResults, logged, finalizeCount>>

\* The zero value of BenchmarkResult held by an unassigned loop variable.
ZeroResult ==
  BenchmarkResult("", "", "", NewBench)

\* The value of start while no call of performRequest has its timer running.
NoTimer == -1

\* A goroutine of the spawn loop that has not been launched yet.
IdleUnit ==
  [pc |-> "idle", accountIndex |-> 0, i |-> 0, bench |-> NewBench, tokens |-> 0,
   start |-> NoTimer]

Init ==
  /\ providerURL \in URLs
  /\ totalRequests \in 0 .. MaxT
  /\ flagReqPerMethod \in FlagValues
  /\ mainPc = "spawn"
  /\ spawnI = 0
  /\ wg = 0
  /\ closerPc = "idle"
  /\ closed = FALSE
  /\ units = [u \in Units |-> IdleUnit]
  /\ now = 0
  /\ passedNow = 0
  /\ cur = ZeroResult
  /\ mutex = "free"
  /\ aggregateResults = [k \in {} |-> ZeroResult]
  /\ logged = <<>>
  /\ finalizeCount = [k \in Keys |-> 0]
  /\ bm = [i |-> 0, bench |-> NewBench, attempts |-> <<>>]

\* ------------------------------------------------------------ the scheduler
\* Mutant: the goroutine gets the index of the next iteration.
SpawnNextIndex ==
  /\ mainPc = "spawn"
  /\ spawnI < totalRequests
  /\ wg' = wg + 1
  /\ units' = [units EXCEPT ![spawnI] =
                 [IdleUnit EXCEPT !.pc = "start",
                                  !.accountIndex = (spawnI + 1) % Len(AccountKeys)]]
  /\ spawnI' = spawnI + 1
  /\ UNCHANGED <<inputs, bm, mainPc, closerPc, closed, clock, aggregator>>

\* One iteration of the spawn loop: wg.Add(1) and the go statement.
Spawn ==
  /\ mainPc = "spawn"
  /\ spawnI < totalRequests
  /\ wg' = wg + 1
  /\ units' = [units EXCEPT ![spawnI] =
                 [IdleUnit EXCEPT !.pc = "start",
                                  !.accountIndex = spawnI % Len(AccountKeys)]]
  /\ spawnI' = spawnI + 1
  /\ UNCHANGED <<inputs, bm, mainPc, closerPc, closed, clock, aggregator>>

\* The spawn loop ends; the closer goroutine is launched and the main
\* goroutine enters the drain loop.
StartCloser ==
  /\ mainPc = "spawn"
  /\ spawnI >= totalRequests
  /\ closerPc' = "wait"
  /\ mainPc' = "range"
  /\ UNCHANGED <<inputs, bm, spawnI, wg, closed, units, clock, aggregator>>

\* Mutant: the closer does not wait for the group.
WaitReturnsAtOnce ==
  /\ closerPc = "wait"
  /\ closerPc' = "close"
  /\ UNCHANGED <<inputs, bm, mainPc, spawnI, wg, closed, units, clock, aggregator>>

\* wg.Wait() returns once the counter is zero.
WaitReturns ==
  /\ closerPc = "wait"
  /\ wg = 0
  /\ closerPc' = "close"
  /\ UNCHANGED <<inputs, bm, mainPc, spawnI, wg, closed, units, clock, aggregator>>

\* close(results)
CloseResults ==
  /\ closerPc = "close"
  /\ closed' = TRUE
  /\ closerPc' = "done"
  /\ UNCHANGED <<inputs, bm, mainPc, spawnI, wg, units, clock, aggregator>>

\* ---------------------------------------------------------------- one unit
\* The BenchmarkResult of unit u once its loop is over.
ResultOf(u) ==
  BenchmarkResult(providerURL, GetAccountInfo,
                  AccountKeys[units[u].accountIndex + 1], units[u].bench)

\* Mutant: the RequestsCount test before the send is missing.
AfterIterationUnfiltered(i, b) ==
  IF i < reqPerMethod THEN "wait" ELSE "send"

\* Where the goroutine goes after i iterations with the locals b: into the
\* next performRequest, or past the loop to the RequestsCount test.
AfterIteration(i, b) ==
  IF i < reqPerMethod THEN "wait"
  ELSE IF b.performedRequests # 0 THEN "send"
  ELSE "exit"

\* The goroutine builds params and the request body, creates its limiter
\* (a new limiter holds its full burst) and enters benchmarkMethod.
StartUnit(u, marshalErr) ==
  /\ units[u].pc = "start"
  /\ units' = [units EXCEPT ![u] =
                 IF marshalErr
                 THEN [@ EXCEPT !.pc = "exit"]
                 ELSE [@ EXCEPT !.pc = AfterIteration(0, NewBench),
                                !.i = 0, !.bench = NewBench,
                                !.tokens = LimiterBurst]]
  /\ UNCHANGED <<inputs, bm, mainPc, spawnI, wg, closerPc, closed, clock, aggregator>>

\* Mutant: the request is sent without waiting for the limiter.
WaitLimiterSkipped(u) ==
  /\ units[u].pc = "wait"
  /\ units' = [units EXCEPT ![u] = [@ EXCEPT !.pc = "do", !.start = now]]
  /\ passedNow' = passedNow + 1
  /\ UNCHANGED <<inputs, bm, mainPc, spawnI, wg, closerPc, closed, now, aggregator>>

\* limiter.Wait returns: the goroutine's limiter gives one token; then
\* start := time.Now().
WaitLimiter(u) ==
  /\ units[u].pc = "wait"
  /\ units[u].tokens >= 1
  /\ units' = [units EXCEPT ![u] =
                 [@ EXCEPT !.pc = "do", !.tokens = @ - 1, !.start = now]]
  /\ passedNow' = passedNow + 1
  /\ UNCHANGED <<inputs, bm, mainPc, spawnI, wg, closerPc, closed, now, aggregator>>

\* limiter.Wait returns an error: performRequest returns it before the timer
\* is started and before client.Do; benchmarkMethod logs it and goes on
\* with i++.
WaitFails(u) ==
  /\ units[u].pc = "wait"
  /\ LET i == units[u].i + 1
     IN  units' = [units EXCEPT ![u] =
                     [@ EXCEPT !.pc = AfterIteration(i, units[u].bench), !.i = i]]
  /\ UNCHANGED <<inputs, bm, mainPc, spawnI, wg, closerPc, closed, clock, aggregator>>

\* client.Do and the rest of performRequest, then the loop body of
\* benchmarkMethod and i++.
DoRequest(u, resp) ==
  /\ units[u].pc = "do"
  /\ LET b == Accumulate(units[u].bench, performRequest(resp))
         i == units[u].i + 1
     IN  units' = [units EXCEPT ![u] =
                     [@ EXCEPT !.pc = AfterIteration(i, b), !.i = i, !.bench = b,
                               !.start = NoTimer]]
  /\ UNCHANGED <<inputs, bm, mainPc, spawnI, wg, closerPc, closed, clock, aggregator>>

\* results <- resp meets the receive of the drain loop (unbuffered channel);
\* the main goroutine writes the per-result log line.
SendRecv(u) ==
  /\ units[u].pc = "send"
  /\ mainPc = "range"
  /\ ~closed
  /\ cur' = ResultOf(u)
  /\ logged' = Append(logged, ResultOf(u))
  /\ mainPc' = "lock"
  /\ units' = [units EXCEPT ![u] = [@ EXCEPT !.pc = "exit"]]
  /\ UNCHANGED <<inputs, bm, spawnI, wg, closerPc, closed, clock, mutex,
                 aggregateResults, finalizeCount>>

\* Mutant: the goroutine returns without wg.Done().
UnitDoneNoSignal(u) ==
  /\ units[u].pc = "exit"
  /\ units' = [units EXCEPT ![u] = [@ EXCEPT !.pc = "done"]]
  /\ UNCHANGED <<inputs, bm, mainPc, spawnI, wg, closerPc, closed, clock, aggregator>>

\* The deferred wg.Done() when the goroutine returns.
UnitDone(u) ==
  /\ units[u].pc = "exit"
  /\ wg' = wg - 1
  /\ units' = [units EXCEPT ![u] = [@ EXCEPT !.pc = "done"]]
  /\ UNCHANGED <<inputs, bm, mainPc, spawnI, closerPc, closed, clock, aggregator>>

\* Time passes by 1/rateLimit seconds: every limiter gains one token, up to
\* its burst.
Tick ==
  /\ now < MaxTime
  /\ now' = now + 1
  /\ passedNow' = 0
  /\ units' = [u \in Units |->
                 [units[u] EXCEPT !.tokens =
                    IF units[u].pc \in {"idle", "start"} THEN @
                    ELSE IF @ + 1 > LimiterBurst THEN LimiterBurst
                    ELSE @ + 1]]
  /\ UNCHANGED <<inputs, bm, mainPc, spawnI, wg, closerPc, closed, aggregator>>

\* ----------------------------------------------------------- the aggregator
\* Mutant: the merge is entered without taking the lock.
LockSkipped ==
  /\ mainPc = "lock"
  /\ mainPc' = "merge"
  /\ UNCHANGED <<inputs, bm, spawnI, wg, closerPc, closed, units, clock, cur,
                 mutex, aggregateResults, logged, finalizeCount>>

\* resultsMutex.Lock()
Lock ==
  /\ mainPc = "lock"
  /\ mutex = "free"
  /\ mutex' = "main"
  /\ mainPc' = "merge"
  /\ UNCHANGED <<inputs, bm, spawnI, wg, closerPc, closed, units, clock, cur,
                 aggregateResults, logged, finalizeCount>>

\* The lookup of the key and the seeding or merging of its entry.
Merge ==
  /\ mainPc = "merge"
  /\ aggregateResults' = MergeResult(aggregateResults, cur)
  /\ mainPc' = "unlock"
  /\ UNCHANGED <<inputs, bm, spawnI, wg, closerPc, closed, units, clock, cur, mutex,
                 logged, finalizeCount>>

\* resultsMutex.Unlock() and back to the receive.
Unlock ==
  /\ mainPc = "unlock"
  /\ mutex' = "free"
  /\ mainPc' = "range"
  /\ UNCHANGED <<inputs, bm, spawnI, wg, closerPc, closed, units, clock, cur,
                 aggregateResults, logged, finalizeCount>>

\* Mutant: the drain loop ends when no result is ready, closed or not.
RangeEndsWhenIdle ==
  /\ mainPc = "range"
  /\ mainPc' = "finalize"
  /\ UNCHANGED <<inputs, bm, spawnI, wg, closerPc, closed, units, clock, aggregator>>

\* The receive finds the channel closed: the drain loop ends.
RangeEnds ==
  /\ mainPc = "range"
  /\ closed
  /\ mainPc' = "finalize"
  /\ UNCHANGED <<inputs, bm, spawnI, wg, closerPc, closed, units, clock, aggregator>>

\* The keys the finalization loop has still to visit.
ToFinalize ==
  { k \in DOMAIN aggregateResults : finalizeCount[k] = 0 }

\* One iteration of the finalization loop.
Finalize(k) ==
  /\ mainPc = "finalize"
  /\ k \in ToFinalize
  /\ aggregateResults' = [aggregateResults EXCEPT ![k] = FinalizeEntry(@)]
  /\ finalizeCount' = [finalizeCount EXCEPT ![k] = @ + 1]
  /\ UNCHANGED <<inputs, bm, mainPc, spawnI, wg, closerPc, closed, units, clock, cur,
                 mutex, logged>>

\* The finalization loop is over and StartTest returns.
Return ==
  /\ mainPc = "finalize"
  /\ ToFinalize = {}
  /\ mainPc' = "done"
  /\ UNCHANGED <<inputs, bm, spawnI, wg, closerPc, closed, units, clock, aggregator>>

Next ==
  \/ Spawn
  \/ StartCloser
  \/ WaitReturns
  \/ CloseResults
  \/ \E u \in Units, marshalErr \in BOOLEAN : StartUnit(u, marshalErr)
  \/ \E u \in Units : WaitLimiter(u)
  \/ \E u \in Units, resp \in Responses : DoRequest(u, resp)
  \/ \E u \in Units : SendRecv(u)
  \/ \E u \in Units : UnitDone(u)
  \/ Lock
  \/ Merge
  \/ Unlock
  \/ RangeEnds
  \/ \E k \in Keys : Finalize(k)
  \/ Return

\* The program without the clock: everything happens within one instant.
Spec == Init /\ [][Next]_vars

\* The program with a limiter whose Wait may return an error. With
\* context.Background() and a request of one token against a burst of one
\* the library has no reason to refuse, so the error is left out of Spec;
\* the code handles it nevertheless, and this specification exercises that
\* branch.
NextWaitErr == Next \/ \E u \in Units : WaitFails(u)

SpecWaitErr == Init /\ [][NextWaitErr]_vars

\* The Go scheduler does not stop while some goroutine can take a step: a
\* runnable goroutine runs, a token of a fresh limiter is granted and a
\* network call returns.
Fairness == WF_vars(Next)

SpecFair == Init /\ [][Next]_vars /\ Fairness

\* The program with the clock.
NextTimed ==
  \/ Next
  \/ Tick

SpecTimed == Init /\ [][NextTimed]_vars

\* ------------------------------------------- benchmarkMethod taken alone
\* One iteration of the loop of benchmarkMethod, for a repeat constant of
\* up to MaxRepeat: performRequest returns, the loop body runs, i++.
BenchStep(resp) ==
  /\ bm.i < MaxRepeat
  /\ bm' = [i |-> bm.i + 1,
            bench |-> Accumulate(bm.bench, performRequest(resp)),
            attempts |-> Append(bm.attempts, performRequest(resp))]
  /\ UNCHANGED <<inputs, mainPc, spawnI, wg, closerPc, closed, units, clock,
                 aggregator>>

InitBench ==
  /\ Init
  /\ totalRequests = 0
  /\ flagReqPerMethod = 1

NextBench == \E resp \in Responses : BenchStep(resp)

\* benchmarkMethod called once, on every sequence of up to MaxRepeat
\* answers of the transport.
SpecBench == InitBench /\ [][NextBench]_vars

TypeOK ==
  /\ mainPc \in {"spawn", "range", "lock", "merge", "unlock", "finalize", "done"}
  /\ closerPc \in {"idle", "wait", "close", "done"}
  /\ wg \in 0 .. MaxT
  /\ \A u \in Units : units[u].pc \in {"idle", "start", "wait", "do", "send", "exit", "done"}

\* ------------------------------------------------------------ properties
\* The units the spawn loop launches in this run.
Launched == { u \in Units : u < totalRequests }

\* The units whose goroutine has returned and called wg.Done().
AllUnitsDone == \A u \in Launched : units[u].pc = "done"

\* C1: the result channel is closed only after every launched unit has
\* completed (its send received, or nothing to send): whenever the channel
\* is closed, or the closer is past wg.Wait, no unit is still running or
\* sending, so no unit sends on a closed channel.
C1_CloseAfterAllUnits ==
  (closed \/ closerPc \in {"close", "done"}) => AllUnitsDone

\* A closed channel after a run in which one unit sent a result and another
\* produced nothing.
C1_Witness ==
  /\ closed
  /\ totalRequests >= 2
  /\ Len(logged) >= 1
  /\ Len(logged) < totalRequests

\* C2: every key is finalized exactly once, only after the channel is closed
\* and the drain loop with all its merges is over; once a key is finalized
\* no merge happens and its aggregate never changes again.
C2_FinalizeOnceAfterMerges ==
  /\ [](\A k \in Keys :
          /\ finalizeCount[k] <= 1
          /\ finalizeCount[k] = 1 =>
               /\ closed
               /\ AllUnitsDone
               /\ mainPc \in {"finalize", "done"}
               /\ k \in DOMAIN aggregateResults
          /\ (mainPc = "done" /\ k \in DOMAIN aggregateResults) =>
               finalizeCount[k] = 1)
  /\ [][\A k \in Keys :
          finalizeCount[k] >= 1 =>
            /\ ~Merge
            /\ aggregateResults'[k] = aggregateResults[k]
            /\ finalizeCount'[k] = finalizeCount[k]]_vars

\* StartTest has returned with a finalized key that at least two results were
\* merged into.
C2_Witness ==
  /\ mainPc = "done"
  /\ Len(logged) >= 2
  /\ \E k \in DOMAIN aggregateResults : finalizeCount[k] = 1

\* The sum of f over the set S.
RECURSIVE SumFn(_, _)
SumFn(f, S) ==
  IF S = {} THEN 0
  ELSE LET x == CHOOSE y \in S : TRUE
       IN  f[x] + SumFn(f, S \ {x})

\* The calls of limiter.Wait that have returned so far, over all units.
GatePasses ==
  SumFn([u \in Units |-> units[u].i + (IF units[u].pc = "do" THEN 1 ELSE 0)], Units)

\* C3: the units draw their tokens from one shared limiter of burst 1, so
\* the configured rate bounds all units together: at most one call passes
\* the gate within one clock unit (1/rate seconds), and at most 1 + rate*s
\* calls have passed s seconds after the start.
C3_SharedLimiterBound ==
  /\ passedNow <= 1
  /\ GatePasses <= 1 + now

\* The units that have left the loop of benchmarkMethod.
PastLoop ==
  { u \in Launched : units[u].pc \in {"send", "exit", "done"} /\ units[u].i > 0 }

\* C4: a unit runs the request executor exactly R times, R being the
\* configured --reqPerMethod value, and its result counts the successes
\* among those R attempts.
C4_RepeatsAsConfigured ==
  \A u \in PastLoop :
    /\ units[u].i = flagReqPerMethod
    /\ units[u].bench.performedRequests <= flagReqPerMethod

\* C5: every BenchmarkResult that a unit is sending, that the drain loop
\* holds or that has been received has a successful count of at least 1.
C5_NoEmptyResultOnStream ==
  /\ \A u \in Launched : units[u].pc = "send" => ResultOf(u).RequestsCount >= 1
  /\ \A n \in 1 .. Len(logged) : logged[n].RequestsCount >= 1
  /\ mainPc \in {"lock", "merge", "unlock"} => cur.RequestsCount >= 1

\* A unit has finished with no successful attempt while the result of a
\* sibling has been received.
C5_Witness ==
  /\ \E u \in PastLoop :
       units[u].pc = "done" /\ units[u].bench.performedRequests = 0
  /\ Len(logged) >= 1

\* The units with at least one successful attempt.
Successful ==
  { u \in PastLoop : units[u].bench.performedRequests > 0 }

\* How often the value r occurs in the sequence q.
Occurrences(q, r) ==
  Cardinality({ n \in 1 .. Len(q) : q[n] = r })

\* C6: when the drain loop is over, the received results are exactly the
\* results of the units with a success, each once, and when StartTest
\* returns the RequestsCount of the key is the number of successful attempts
\* of all units (the key being absent when there is none).
C6_NoResultLostOrDuplicated ==
  mainPc \in {"finalize", "done"} =>
    /\ Len(logged) = Cardinality(Successful)
    /\ \A u \in Successful :
         Occurrences(logged, ResultOf(u)) =
           Cardinality({ v \in Successful : ResultOf(v) = ResultOf(u) })
    /\ LET key == providerURL \o "_" \o GetAccountInfo
           total == SumFn([u \in Units |-> units[u].bench.performedRequests], Units)
       IN  IF total = 0 THEN key \notin DOMAIN aggregateResults
           ELSE /\ key \in DOMAIN aggregateResults
                /\ aggregateResults[key].RequestsCount = total

\* StartTest has returned after two units succeeded and one failed.
C6_Witness ==
  /\ mainPc = "done"
  /\ Cardinality(Successful) >= 2
  /\ Cardinality(PastLoop \ Successful) >= 1

\* The received results that have been merged: all of them, but the last
\* one while the drain loop is between the receive and the merge.
Merged ==
  IF mainPc \in {"lock", "merge"} THEN SubSeq(logged, 1, Len(logged) - 1)
  ELSE logged

\* The positions in Merged of the results of key k.
MergedOf(k) == { n \in 1 .. Len(Merged) : KeyOf(Merged[n]) = k }

Least(S) == CHOOSE m \in S : \A x \in S : m <= x

Greatest(S) == CHOOSE m \in S : \A x \in S : m >= x

\* C7: before finalization, the aggregate of a key is, per phase, the sum of
\* the merged results' TotalTimings, the minimum of their MinTimings and the
\* maximum of their MaxTimings; its RequestsCount and TotalTime are the sums
\* of theirs; a key no result was merged for has no entry.
C7_AggregateIsSumMinMax ==
  \A k \in Keys :
    LET ns == MergedOf(k)
    IN  IF ns = {} THEN k \notin DOMAIN aggregateResults
        ELSE /\ k \in DOMAIN aggregateResults
             /\ finalizeCount[k] = 0 =>
                  LET agg == aggregateResults[k]
                  IN  /\ \A p \in Phases :
                           /\ agg.AggregateTimings[p] =
                                SumFn([n \in ns |-> Merged[n].TotalTimings[p]], ns)
                           /\ agg.MinTimings[p] =
                                Least({ Merged[n].MinTimings[p] : n \in ns })
                           /\ agg.MaxTimings[p] =
                                Greatest({ Merged[n].MaxTimings[p] : n \in ns })
                      /\ agg.RequestsCount =
                           SumFn([n \in ns |-> Merged[n].RequestsCount], ns)
                      /\ agg.TotalTime =
                           SumFn([n \in ns |-> Merged[n].TotalTime], ns)

\* Three results with different timings have been merged and the key is not
\* finalized yet.
C7_Witness ==
  /\ Len(Merged) >= 3
  /\ \E m, n \in 1 .. Len(Merged) : Merged[m].MinTimings # Merged[n].MinTimings
  /\ \A k \in Keys : finalizeCount[k] = 0

\* The map after the results of the sequence q have been merged in order
\* into an empty map.
RECURSIVE FoldMerge(_)
FoldMerge(q) ==
  IF q = <<>> THEN [k \in {} |-> ZeroResult]
  ELSE MergeResult(FoldMerge(SubSeq(q, 1, Len(q) - 1)), q[Len(q)])

\* C8: the merge is order-independent: merging the merged results in any
\* other arrival order gives the aggregate the program holds, field by field.
C8_MergeOrderIndependent ==
  (mainPc \in {"range", "finalize"} /\ \A k \in Keys : finalizeCount[k] = 0) =>
    \A perm \in Permutations(1 .. Len(Merged)) :
      FoldMerge([n \in 1 .. Len(Merged) |-> Merged[perm[n]]]) = aggregateResults

\* Three results, not all equal, have been merged.
C8_Witness ==
  /\ mainPc = "finalize"
  /\ Len(Merged) >= 3
  /\ \E m, n \in 1 .. Len(Merged) : Merged[m].MaxTimings # Merged[n].MaxTimings
  /\ \A k \in Keys : finalizeCount[k] = 0

\* The units whose result belongs to key k.
UnitsOf(k) == { u \in Successful : KeyOf(ResultOf(u)) = k }

\* C9: the reported average of each of the four phases of a key is the
\* truncated quotient of the phase's sum over all successful attempts of the
\* key's units by the key's number of successful attempts.
C9_AverageIsTrueMean ==
  \A k \in DOMAIN aggregateResults :
    finalizeCount[k] = 1 =>
      LET us == UnitsOf(k)
          count == SumFn([u \in us |-> units[u].bench.performedRequests], us)
      IN  /\ count >= 1
          /\ \A p \in Phases :
               aggregateResults[k].AggregateTimings[p] =
                 SumFn([u \in us |-> units[u].bench.totalTimings[p]], us) \div count

\* A finalized key over three successful attempts whose sums are not
\* multiples of the count.
C9_Witness ==
  \E k \in DOMAIN aggregateResults :
    /\ finalizeCount[k] = 1
    /\ aggregateResults[k].RequestsCount >= 3
    /\ \A p \in Phases :
         SumFn([u \in UnitsOf(k) |-> units[u].bench.totalTimings[p]], UnitsOf(k))
           % aggregateResults[k].RequestsCount # 0

\* The kinds of failure the transport's answers produce.
ErrorKinds == { performRequest(r).err : r \in Responses } \ {NoErr}

\* The answers of the transport that make performRequest fail.
FailingResponses == { r \in Responses : performRequest(r).err # NoErr }

\* C10: a failed attempt of any kind leaves the unit's min, max, total,
\* total time and count as they were, the loop goes on with the next
\* iteration (the unit is not aborted), and no other unit, nor the
\* scheduler or the aggregator, is affected.
C10_FailedAttemptDiscarded ==
  [][\A u \in Units :
       (units[u].pc = "do" /\ \E r \in FailingResponses : DoRequest(u, r)) =>
         /\ units'[u].bench = units[u].bench
         /\ units'[u].i = units[u].i + 1
         /\ units'[u].pc \in {"wait", "send", "exit"}
         /\ units'[u].i < reqPerMethod => units'[u].pc = "wait"
         /\ \A v \in Units \ {u} : units'[v] = units[v]
         /\ UNCHANGED <<mainPc, wg, closerPc, closed, aggregator>>]_vars

\* A unit's attempt has failed while a sibling's attempt has succeeded, and
\* every kind of failure is among the transport's answers.
C10_Witness ==
  /\ \E u, v \in PastLoop :
       /\ units[u].bench.performedRequests = 0
       /\ units[v].bench.performedRequests > 0
  /\ ErrorKinds = {"transport", "measurement", "read", "status", "decode", "rpc"}

\* The BenchmarkResult benchmarkMethod returns if its loop ends now.
BenchResult ==
  BenchmarkResult(providerURL, GetAccountInfo, AccountKeys[1], bm.bench)

\* The positions of the successful attempts of the call.
Successes == { n \in 1 .. Len(bm.attempts) : bm.attempts[n].err = NoErr }

\* C11: in a BenchmarkResult with n >= 1 successes, the total of each phase
\* is the sum of the phase over the n successful attempts and the average is
\* that sum divided by n, the remainder dropped; the count is n.
C11_AverageIsFloorOfSum ==
  Cardinality(Successes) >= 1 =>
    /\ BenchResult.RequestsCount = Cardinality(Successes)
    /\ \A p \in Phases :
         LET sum == SumFn([n \in Successes |-> bm.attempts[n].timings[p]], Successes)
         IN  /\ BenchResult.TotalTimings[p] = sum
             /\ BenchResult.AverageTimings[p] = sum \div Cardinality(Successes)

\* Two successes with timings (1,2,3,4) and (3,1,5,2): totals (4,3,8,6),
\* averages (2,1,4,3), the TCP average being truncated.
C11_Witness ==
  /\ Len(bm.attempts) = 2
  /\ Cardinality(Successes) = 2
  /\ BenchResult.TotalTimings = RequestTimings(4, 3, 8, 6)
  /\ BenchResult.AverageTimings = RequestTimings(2, 1, 4, 3)

\* C12: min and max are taken per phase over the successful attempts only:
\* each phase of MinTimings is the least and of MaxTimings the greatest value
\* of that phase among the successes, and failed attempts, before or after
\* the first success, contribute nothing.
C12_MinMaxPerPhase ==
  Cardinality(Successes) >= 1 =>
    \A p \in Phases :
      /\ BenchResult.MinTimings[p] =
           Least({ bm.attempts[n].timings[p] : n \in Successes })
      /\ BenchResult.MaxTimings[p] =
           Greatest({ bm.attempts[n].timings[p] : n \in Successes })

\* A failed attempt, then (1,2,3,4) and (3,1,5,2): min (1,1,3,2) and max
\* (3,2,5,4), each mixing phases of the two successes.
C12_Witness ==
  /\ Len(bm.attempts) = 3
  /\ bm.attempts[1].err # NoErr
  /\ Cardinality(Successes) = 2
  /\ BenchResult.MinTimings = RequestTimings(1, 1, 3, 2)
  /\ BenchResult.MaxTimings = RequestTimings(3, 2, 5, 4)

\* The goroutines that exist.
Running == { u \in Units : units[u].pc # "idle" }

\* C13: the spawn loop launches exactly the units 0 .. T-1, and unit i is
\* bound to parameter set i mod P whatever the order the units run in: its
\* result carries AccountKeys[i mod P].
C13_RoundRobinParams ==
  /\ Running = 0 .. (spawnI - 1)
  /\ spawnI <= totalRequests
  /\ mainPc # "spawn" => Running = 0 .. (totalRequests - 1)
  /\ \A u \in Running :
       /\ units[u].accountIndex = u % Len(AccountKeys)
       /\ ResultOf(u).Params = AccountKeys[(u % Len(AccountKeys)) + 1]

\* All units are launched, the pool has wrapped around (units 0 and 2 share
\* a parameter set) and the last unit has finished before the first began.
C13_Witness ==
  /\ mainPc # "spawn"
  /\ totalRequests > Len(AccountKeys)
  /\ units[totalRequests - 1].pc = "done"
  /\ units[0].pc = "start"
  /\ ResultOf(0).Params = ResultOf(Len(AccountKeys)).Params
  /\ ResultOf(0).Params # ResultOf(1).Params

\* Every field of a RequestTimings value is non-negative.
NonNegTimings(t) == \A p \in Phases : t[p] >= 0

\* Every duration of a BenchmarkResult is non-negative.
NonNegResult(r) ==
  /\ NonNegTimings(r.MinTimings)
  /\ NonNegTimings(r.MaxTimings)
  /\ NonNegTimings(r.AverageTimings)
  /\ NonNegTimings(r.TotalTimings)
  /\ r.TotalTime >= 0

\* The answers of the transport whose computed serverProcessing is negative.
SkewedResponses == { r \in Responses : ServerProcessingOf(r) < 0 }

Reported == { k \in Keys : finalizeCount[k] >= 1 }

\* C15: the final report reflects the successful attempts only: once the
\* drain loop is over a key has an entry if and only if an attempt for it
\* succeeded, and when StartTest returns the report has a line for exactly
\* those keys; with no success at all the report is empty.
C15_ReportedIffSucceeded ==
  /\ mainPc \in {"finalize", "done"} =>
       \A k \in Keys : (k \in DOMAIN aggregateResults) <=> (UnitsOf(k) # {})
  /\ mainPc = "done" =>
       \A k \in Keys : (k \in Reported) <=> (UnitsOf(k) # {})
  /\ Reported \subseteq DOMAIN aggregateResults

\* StartTest has returned after every attempt of every unit failed: no
\* entry, no report line.
C15_Witness ==
  /\ mainPc = "done"
  /\ totalRequests >= 2
  /\ \A u \in Launched : units[u].i = reqPerMethod /\ units[u].bench.performedRequests = 0
  /\ DOMAIN aggregateResults = {}
  /\ Reported = {}

\* C16: StartTest runs to completion for every T, T = 0 included, and
\* every mix of succeeding and failing attempts: eventually all units have
\* returned, the channel is closed, the drain loop has ended and every key
\* is finalized; no unit stays blocked on its send and the drain loop does
\* not wait forever.
C16_RunsToCompletion ==
  <>(/\ mainPc = "done"
     /\ closed
     /\ AllUnitsDone
     /\ \A k \in DOMAIN aggregateResults : finalizeCount[k] = 1)

\* StartTest has returned after a run in which one unit sent a result and
\* another had nothing to send.
C16_Witness ==
  /\ mainPc = "done"
  /\ closed
  /\ Successful # {}
  /\ PastLoop \ Successful # {}
  /\ AllUnitsDone

\* C17: the map of aggregates is accessed with mutual exclusion: a merge
\* happens only while the main goroutine holds the lock, the lock is held
\* exactly from Lock to Unlock, one merge at most is in progress, the main
\* goroutine alone receives from the channel, and a step of a unit other
\* than handing over its result changes nothing of the aggregator's state.
C17_MergeUnderLock ==
  /\ [](/\ mutex \in {"free", "main"}
        /\ (mutex = "main") <=> (mainPc \in {"merge", "unlock"}))
  /\ [][/\ (aggregateResults' # aggregateResults) =>
            (\/ mainPc = "merge" /\ mutex = "main" /\ mutex' = "main"
             \/ mainPc = "finalize" /\ AllUnitsDone)
        /\ (logged' # logged) => (mainPc = "range" /\ mainPc' = "lock")
        /\ (units' # units /\ logged' = logged) => (aggregator' = aggregator)]_vars

\* The main goroutine holds the lock and is about to update an existing
\* entry while another unit is still in its call.
C17_Witness ==
  /\ mainPc = "merge"
  /\ mutex = "main"
  /\ KeyOf(cur) \in DOMAIN aggregateResults
  /\ \E u \in Units : units[u].pc \in {"wait", "do", "send"}

\* C18: in every call of performRequest the token is acquired first, the
\* timer is started next and the request is dispatched last: a unit enters
\* the dispatch only from limiter.Wait, by taking one token of its limiter,
\* with its timer set to the time of that step; the timer runs exactly
\* while the request is dispatched; a call that returns without having been
\* dispatched is one whose limiter.Wait failed: it has taken no token, has
\* started no timer and counts as a failed attempt; and a unit waiting for
\* its token does nothing else.
C18_TokenThenTimerThenDispatch ==
  /\ [](\A u \in Units : (units[u].pc = "do") <=> (units[u].start # NoTimer))
  /\ [][\A u \in Units :
          /\ (units[u].pc # "do" /\ units'[u].pc = "do") =>
               /\ units[u].pc = "wait"
               /\ units[u].tokens >= 1
               /\ units'[u].tokens = units[u].tokens - 1
               /\ units'[u].start = now
               /\ units'[u].i = units[u].i
          /\ (units'[u].i # units[u].i /\ units[u].pc # "do") =>
               /\ units[u].pc = "wait"
               /\ units'[u].i = units[u].i + 1
               /\ units'[u].bench = units[u].bench
               /\ units'[u].tokens = units[u].tokens
               /\ units'[u].start = NoTimer
               /\ units'[u].pc # "do"
          /\ (units[u].pc = "wait" /\ units'[u].pc # "wait") =>
               (units'[u].pc = "do" \/ units'[u].i = units[u].i + 1)]_vars

\* A unit has its request dispatched, its token spent and its timer running,
\* while another unit still waits at its limiter and a third has left the
\* call with its token unspent, because limiter.Wait failed.
C18_Witness ==
  \E u, v, w \in Units :
    /\ units[u].pc = "do"
    /\ units[u].tokens = 0
    /\ units[u].start = now
    /\ units[v].pc = "wait"
    /\ units[v].start = NoTimer
    /\ units[w].pc \in {"exit", "done"}
    /\ units[w].i = 1
    /\ units[w].tokens = LimiterBurst

\* C19: every entry of the aggregate map has RequestsCount >= 1 from its
\* creation on: an entry is created with the count of a streamed result,
\* which is at least one, its count never decreases afterwards, and the
\* finalization pass divides by a count of at least one.
C19_CountAtLeastOne ==
  /\ [](\A k \in DOMAIN aggregateResults :
          aggregateResults[k].RequestsCount >= 1)
  /\ [][/\ \A k \in DOMAIN aggregateResults' :
             IF k \in DOMAIN aggregateResults
             THEN aggregateResults'[k].RequestsCount >=
                    aggregateResults[k].RequestsCount
             ELSE /\ aggregateResults'[k].RequestsCount = cur.RequestsCount
                  /\ cur.RequestsCount >= 1
        /\ DOMAIN aggregateResults \subseteq DOMAIN aggregateResults'
        /\ \A k \in Keys :
             (finalizeCount'[k] # finalizeCount[k]) =>
               (k \in DOMAIN aggregateResults
                  /\ aggregateResults[k].RequestsCount >= 1)]_vars

\* An entry that was created and then added to has been divided by its
\* count, in a run where one unit had no success and sent nothing.
C19_Witness ==
  \E k \in DOMAIN aggregateResults :
    /\ finalizeCount[k] = 1
    /\ aggregateResults[k].RequestsCount >= 2
    /\ \E u \in Units :
         /\ units[u].pc = "done"
         /\ units[u].i = reqPerMethod
         /\ units[u].bench.performedRequests = 0

====
